---- MODULE Spec2Model ----
(***************************************************************************)
(* Hybrid retrieval and confidence-scored answer pipeline                  *)
(* (src/search_engine.py) and the concurrent bulk-question layer built on  *)
(* it (src/bulk_processor.py).                                             *)
(*                                                                         *)
(* Two specifications share the module:                                    *)
(*   SpecAnswer  one search_and_answer call, one step per external call    *)
(*               (embedding, store query, language model);                 *)
(*   Spec        one process_questions run on a ThreadPoolExecutor; each   *)
(*               unit executes the same pipeline code, run to completion   *)
(*               (units share no mutable state, so the interleaving of     *)
(*               their internal steps is not observable).                  *)
(*                                                                         *)
(* The three external services are an oracle (a "script") fixed when a     *)
(* call starts: which external call fails, what the store returns, what    *)
(* the language model completes, which embedding provider answers.         *)
(* Floats are exact rationals <<numerator, denominator>>.                  *)
(***************************************************************************)
EXTENDS Integers, Sequences, FiniteSets, TLC

\* ------------------------------------------------------------------ bounds
MaxQuestions == 3
MaxWorkers == 2
MaxResults == 3
NumProviders == 2

\* ------------------------------------------------------- program constants
DefaultTopK == 5

\* ----------------------------------------------------------------- numbers
Abs(n) == IF n < 0 THEN -n ELSE n

RECURSIVE Gcd(_, _)
Gcd(a, b) == IF b = 0 THEN a ELSE Gcd(b, a % b)

\* the rational n/d in lowest terms with a positive denominator (d # 0)
Rat(n, d) ==
    LET g == Gcd(Abs(n), Abs(d))
        s == IF d < 0 THEN -1 ELSE 1
    IN  <<(s * n) \div g, (s * d) \div g>>

Zero == <<0, 1>>
One == <<1, 1>>
RAdd(a, b) == Rat(a[1] * b[2] + b[1] * a[2], a[2] * b[2])
RMul(a, b) == Rat(a[1] * b[1], a[2] * b[2])
RDiv(a, b) == Rat(a[1] * b[2], a[2] * b[1])
RLe(a, b) == a[1] * b[2] <= b[1] * a[2]
RMin(a, b) == IF RLe(a, b) THEN a ELSE b

RECURSIVE RSum(_)
RSum(s) == IF s = <<>> THEN Zero ELSE RAdd(Head(s), RSum(Tail(s)))

\* --------------------------------------------------------------- the texts
Queries == <<"Q1", "Q2", "Q3", "Q4">>
DocQuestions == <<"DQ1", "DQ2", "DQ3", "DQ4">>
DocAnswers == <<"DA1", "DA2", "DA3", "DA4">>
DocSummaries == <<"S1", "", "S3", "">>
Completions == {"C1", "C2"}
NoInfoAnswer == "No relevant information found."

AllTexts == Queries \o DocAnswers \o <<"C1", "C2">>
TextIndex(text) == CHOOSE i \in 1..Len(AllTexts) : AllTexts[i] = text

\* -------------------------------------------------------------- embeddings
\* Dense vectors of the provider, dimension 2 instead of 512, in fifths: the
\* provider returns unit vectors, here all of norm 5.
Vectors == <<<<5, 0>>, <<3, 4>>, <<0, 5>>, <<-5, 0>>, <<4, -3>>>>
EmbedProviders == 1..NumProviders

\* What provider p returns for a text; deterministic for identical text.
Embed(p, text) == Vectors[((TextIndex(text) * (p - 1)) % Len(Vectors)) + 1]

ISqrt(n) == CHOOSE r \in 0..n : r * r = n
Dot(u, v) == u[1] * v[1] + u[2] * v[2]

Cosine(u, v) == Rat(Dot(u, v), ISqrt(Dot(u, u)) * ISqrt(Dot(v, v)))

\* ------------------------------------------------------ the external world
\* The point the store holds for document k, as query_points reports it.
Hit(k) ==
    [id |-> k,
     score |-> Rat(1, k + 1),
     payload |-> [question |-> DocQuestions[k], answer |-> DocAnswers[k],
                  summary |-> DocSummaries[k]]]

ResultLists == {[k \in 1..n |-> Hit(k)] : n \in 0..MaxResults}

\* External calls of one search_and_answer call: 3 in hybrid_search, the
\* completion, 2 per pair of retrieved answers, 2 for coverage.
MaxCalls == 6 + MaxResults * (MaxResults - 1)

\* failAt = n: the n-th external call of the call raises (0: none does).
Scripts ==
    [failAt : 0..MaxCalls, results : ResultLists,
     completion : Completions, emb : EmbedProviders]

\* str(e) of the exception an external call raises
ErrText(kind) ==
    CASE kind = "dense" -> "embedding request failed"
      [] kind = "sparse" -> "sparse model failed"
      [] kind = "query" -> "store query failed"
      [] kind = "llm" -> "completion request failed"

Min(a, b) == IF a <= b THEN a ELSE b

\* query_points(..., limit=top_k): the store returns at most limit points
QueryPoints(script, top_k) ==
    SubSeq(script.results, 1, Min(Len(script.results), top_k))

\* ------------------------------------------------ one search_and_answer call
NewFrame(query, top_k, script) ==
    [query |-> query, top_k |-> top_k, script |-> script,
     pc |-> "hs_dense", log |-> <<>>,
     hs_returned |-> FALSE, search_results |-> <<>>, ga_called |-> FALSE, ga_results |-> <<>>,
     response |-> "", i |-> 0, j |-> 0, emb1 |-> <<0, 0>>,
     answer_similarities |-> <<>>, answer_embedding |-> <<0, 0>>,
     exc |-> "", ret |-> <<>>]

\* the external call about to be made is the one the script fails
CallFails(f) == f.script.failAt = Len(f.log) + 1
Logged(f, kind) == [f EXCEPT !.log = Append(@, kind)]

\* except Exception: log, raise  (the caller of search_and_answer sees e)
SearchAndAnswerExcept(f, e) == [f EXCEPT !.pc = "raised", !.exc = e]

\* generate_answer wraps the failure in an exception of its own
GenerateAnswerExcept_Wrap(f, e) == SearchAndAnswerExcept(f, "SynthesisError")

\* except Exception in generate_answer: log, raise (into search_and_answer)
GenerateAnswerExcept(f, e) == SearchAndAnswerExcept(f, e)

\* the dict search_and_answer returns
SearchAndAnswerReturn(f, answer_data) ==
    [f EXCEPT !.pc = "returned",
              !.ret = <<[query |-> f.query,
                         search_results |-> f.search_results,
                         answer |-> answer_data.answer,
                         confidence |-> answer_data.confidence,
                         confidence_breakdown |->
                             answer_data.confidence_breakdown]>>]

\* generate_answer, "if not search_results" branch
NoResultsAnswer ==
    [answer |-> NoInfoAnswer, confidence |-> Zero,
     confidence_breakdown |->
         [relevance |-> Zero, diversity |-> Zero,
          agreement |-> Zero, coverage |-> Zero]]

\* generate_answer without its empty-results branch
GenerateAnswerEntry_NoGuard(f, search_results) ==
    [f EXCEPT !.ga_called = TRUE, !.ga_results = search_results,
              !.pc = "ga_llm"]

\* generate_answer from its entry to its first external call
GenerateAnswerEntry(f, search_results) ==
    LET g == [f EXCEPT !.ga_called = TRUE, !.ga_results = search_results]
    IN  IF search_results = <<>>
        THEN SearchAndAnswerReturn(g, NoResultsAnswer)
        ELSE [g EXCEPT !.pc = "ga_llm"]

\* generate_answer is handed the top result only
CallGenerateAnswer_TopOnly(f) ==
    GenerateAnswerEntry(f, IF f.search_results = <<>> THEN <<>>
                           ELSE <<f.search_results[1]>>)

\* search_and_answer: generate_answer(query, search_results, top_k)
CallGenerateAnswer(f) == GenerateAnswerEntry(f, f.search_results)

\* hybrid_search swallows the failure and returns an empty list
HybridSearchExcept_Swallow(f, e) ==
    CallGenerateAnswer([f EXCEPT !.hs_returned = TRUE,
                                 !.search_results = <<>>])

\* except Exception in hybrid_search: log, raise (into search_and_answer)
HybridSearchExcept(f, e) == SearchAndAnswerExcept(f, e)

\* hybrid_search: get_dense_embedding(query)
HsDense(f) ==
    LET g == Logged(f, "dense")
    IN  IF CallFails(f) THEN HybridSearchExcept(g, ErrText("dense"))
        ELSE [g EXCEPT !.pc = "hs_sparse"]

\* hybrid_search: get_sparse_embedding(query)
HsSparse(f) ==
    LET g == Logged(f, "sparse")
    IN  IF CallFails(f) THEN HybridSearchExcept(g, ErrText("sparse"))
        ELSE [g EXCEPT !.pc = "hs_query"]

\* the query is sent without limit=top_k
HsQuery_NoLimit(f) ==
    LET g == Logged(f, "query")
    IN  IF CallFails(f) THEN HybridSearchExcept(g, ErrText("query"))
        ELSE CallGenerateAnswer(
                 [g EXCEPT !.hs_returned = TRUE,
                           !.search_results = f.script.results])

\* hybrid_search: query_points, the result list, return to search_and_answer
HsQuery(f) ==
    LET g == Logged(f, "query")
    IN  IF CallFails(f) THEN HybridSearchExcept(g, ErrText("query"))
        ELSE CallGenerateAnswer(
                 [g EXCEPT !.hs_returned = TRUE,
                           !.search_results = QueryPoints(f.script, f.top_k)])

\* the completion is requested a second time when the first request fails
GaLLM_Retry(f) ==
    LET g == IF CallFails(f) THEN Logged(Logged(f, "llm"), "llm")
             ELSE Logged(f, "llm")
    IN  IF Len(f.ga_results) >= 2
        THEN [g EXCEPT !.response = f.script.completion,
                       !.pc = "ga_emb1", !.i = 1, !.j = 2]
        ELSE [g EXCEPT !.response = f.script.completion,
                       !.pc = "ga_cov_answer"]

\* generate_answer: chat.completions.create, then the start of the pair loop
GaLLM(f) ==
    LET g == Logged(f, "llm")
    IN  IF CallFails(f) THEN GenerateAnswerExcept(g, ErrText("llm"))
        ELSE IF Len(f.ga_results) >= 2
             THEN [g EXCEPT !.response = f.script.completion,
                            !.pc = "ga_emb1", !.i = 1, !.j = 2]
             ELSE [g EXCEPT !.response = f.script.completion,
                            !.pc = "ga_cov_answer"]

Answers(f) == [k \in 1..Len(f.ga_results) |-> f.ga_results[k].payload.answer]

\* generate_answer: emb1 = get_dense_embedding(answers[i])
GaEmb1(f) ==
    LET g == Logged(f, "dense")
    IN  IF CallFails(f) THEN GenerateAnswerExcept(g, ErrText("dense"))
        ELSE [g EXCEPT !.emb1 = Embed(f.script.emb, Answers(f)[f.i]),
                       !.pc = "ga_emb2"]

\* generate_answer: emb2 = get_dense_embedding(answers[j]), the similarity,
\* and the loop headers "for i in range(n): for j in range(i+1, n)"
GaEmb2(f) ==
    LET g == Logged(f, "dense")
        n == Len(f.ga_results)
        emb2 == Embed(f.script.emb, Answers(f)[f.j])
        h == [g EXCEPT !.answer_similarities =
                           Append(@, Cosine(f.emb1, emb2))]
    IN  IF CallFails(f) THEN GenerateAnswerExcept(g, ErrText("dense"))
        ELSE IF f.j < n
             THEN [h EXCEPT !.pc = "ga_emb1", !.j = f.j + 1]
             ELSE IF f.i + 2 <= n
                  THEN [h EXCEPT !.pc = "ga_emb1", !.i = f.i + 1,
                                 !.j = f.i + 2]
                  ELSE [h EXCEPT !.pc = "ga_cov_answer"]

\* generate_answer: answer_embedding = get_dense_embedding(the completion)
GaCovAnswer(f) ==
    LET g == Logged(f, "dense")
    IN  IF CallFails(f) THEN GenerateAnswerExcept(g, ErrText("dense"))
        ELSE [g EXCEPT !.answer_embedding = Embed(f.script.emb, f.response),
                       !.pc = "ga_cov_query"]

TopRelevance(search_results) ==
    IF search_results # <<>> THEN RDiv(search_results[1].score, One) ELSE Zero

SourceDiversity(search_results, top_k) ==
    RMin(Rat(Len(search_results), top_k), One)

\* the similarities are summed, not averaged
SourceAgreement_Sum(answer_similarities) ==
    IF answer_similarities # <<>> THEN RSum(answer_similarities) ELSE Zero

SourceAgreement(answer_similarities) ==
    IF answer_similarities # <<>>
    THEN RDiv(RSum(answer_similarities), Rat(Len(answer_similarities), 1))
    ELSE Zero

\* diversity weighted 0.3 instead of 0.2
Confidence_WrongWeight(relevance, diversity, agreement, coverage) ==
    RAdd(RAdd(RAdd(RMul(Rat(4, 10), relevance), RMul(Rat(3, 10), diversity)),
              RMul(Rat(2, 10), agreement)),
         RMul(Rat(2, 10), coverage))

Confidence(relevance, diversity, agreement, coverage) ==
    RAdd(RAdd(RAdd(RMul(Rat(4, 10), relevance), RMul(Rat(2, 10), diversity)),
              RMul(Rat(2, 10), agreement)),
         RMul(Rat(2, 10), coverage))

\* diversity computed against the default top_k, not the requested one
AnswerData_DefaultTopK(f, coverage) ==
    LET relevance == TopRelevance(f.ga_results)
        diversity == SourceDiversity(f.ga_results, DefaultTopK)
        agreement == SourceAgreement(f.answer_similarities)
    IN  [answer |-> f.response,
         confidence |-> Confidence(relevance, diversity, agreement, coverage),
         confidence_breakdown |->
             [relevance |-> relevance, diversity |-> diversity,
              agreement |-> agreement, coverage |-> coverage]]

\* the dict generate_answer returns after the completion
AnswerData(f, coverage) ==
    LET relevance == TopRelevance(f.ga_results)
        diversity == SourceDiversity(f.ga_results, f.top_k)
        agreement == SourceAgreement(f.answer_similarities)
    IN  [answer |-> f.response,
         confidence |-> Confidence(relevance, diversity, agreement, coverage),
         confidence_breakdown |->
             [relevance |-> relevance, diversity |-> diversity,
              agreement |-> agreement, coverage |-> coverage]]

\* generate_answer: question_embedding, coverage, confidence, return
GaCovQuery(f) ==
    LET g == Logged(f, "dense")
        question_embedding == Embed(f.script.emb, f.query)
    IN  IF CallFails(f) THEN GenerateAnswerExcept(g, ErrText("dense"))
        ELSE SearchAndAnswerReturn(g,
                 AnswerData(g, Cosine(f.answer_embedding, question_embedding)))

FrameDone(f) == f.pc \in {"returned", "raised"}

\* the code from one suspension point (external call) to the next
StepCall(f) ==
    CASE f.pc = "hs_dense" -> HsDense(f)
      [] f.pc = "hs_sparse" -> HsSparse(f)
      [] f.pc = "hs_query" -> HsQuery(f)
      [] f.pc = "ga_llm" -> GaLLM(f)
      [] f.pc = "ga_emb1" -> GaEmb1(f)
      [] f.pc = "ga_emb2" -> GaEmb2(f)
      [] f.pc = "ga_cov_answer" -> GaCovAnswer(f)
      [] f.pc = "ga_cov_query" -> GaCovQuery(f)

RECURSIVE RunFrame(_)
RunFrame(f) == IF FrameDone(f) THEN f ELSE RunFrame(StepCall(f))

\* search_and_answer(query, top_k) run to its end under a script
SearchAndAnswer(query, top_k, script) ==
    RunFrame(NewFrame(query, top_k, script))

\* ---------------------------------------------------- process_questions
\* None is <<>>, a present value v is <<v>>.
None == <<>>
Some(v) == <<v>>

\* the handler lets the exception escape into the Future
ProcessSingleQuestionExcept_Reraise(question, e) ==
    [kind |-> "exception", value |-> e]

\* the handler drops the exception text
ProcessSingleQuestionExcept_NoMessage(question, e) ==
    [kind |-> "result",
     value |-> [question |-> question, answer |-> None, confidence |-> Zero,
                confidence_breakdown |-> None, source_documents |-> <<>>,
                status |-> "error", error_message |-> Some("Unknown error")]]

\* process_single_question, "except Exception as e": the error item
ProcessSingleQuestionExcept(question, e) ==
    [kind |-> "result",
     value |-> [question |-> question, answer |-> None, confidence |-> Zero,
                confidence_breakdown |-> None, source_documents |-> <<>>,
                status |-> "error", error_message |-> Some(e)]]

\* process_single_question, step 3: one entry per retrieved document; the
\* stored payload has no 'content' key, so content is ''
SourceDocuments(search_results) ==
    [k \in 1..Len(search_results) |->
        [content |-> "", metadata |-> search_results[k].payload,
         score |-> search_results[k].score]]

\* an answer without source documents is reported as an error
ProcessSingleQuestionFormat_EmptyIsError(question, result) ==
    IF result.search_results = <<>>
    THEN [kind |-> "result",
          value |-> [question |-> question, answer |-> None,
                     confidence |-> Zero, confidence_breakdown |-> None,
                     source_documents |-> <<>>, status |-> "error",
                     error_message |-> Some("Unknown error")]]
    ELSE [kind |-> "result",
          value |-> [question |-> question, answer |-> Some(result.answer),
                     confidence |-> result.confidence,
                     confidence_breakdown |->
                         Some(result.confidence_breakdown),
                     source_documents |->
                         SourceDocuments(result.search_results),
                     status |-> "success", error_message |-> None]]

\* process_single_question, steps 2 to 4, for the dict search_and_answer
\* returned
ProcessSingleQuestionFormat(question, result) ==
    IF "status" \in DOMAIN result /\ result["status"] = "error"
    THEN [kind |-> "result",
          value |-> [question |-> question, answer |-> None,
                     confidence |-> Zero, confidence_breakdown |-> None,
                     source_documents |-> <<>>, status |-> "error",
                     error_message |-> Some("Unknown error")]]
    ELSE [kind |-> "result",
          value |-> [question |-> question, answer |-> Some(result.answer),
                     confidence |-> result.confidence,
                     confidence_breakdown |->
                         Some(result.confidence_breakdown),
                     source_documents |->
                         SourceDocuments(result.search_results),
                     status |-> "success", error_message |-> None]]

\* process_single_question(question), given how its search_and_answer call
\* ended (sa: the finished frame): what the unit's future holds
ProcessSingleQuestion(question, sa) ==
    IF sa.pc = "raised"
    THEN ProcessSingleQuestionExcept(question, sa.exc)
    ELSE ProcessSingleQuestionFormat(question, sa.ret[1])

\* the sort key: questions.index(next(q for q in questions if
\* q['question'] == x['question']))
SortKey(qs, x) == CHOOSE k \in 1..Len(qs) :
    /\ qs[k] = x.question
    /\ \A m \in 1..(k - 1) : qs[m] # x.question

\* list.sort(key=...): stable, ascending
RECURSIVE InsertByKey(_, _, _)
InsertByKey(qs, sorted, x) ==
    IF sorted = <<>> THEN <<x>>
    ELSE IF SortKey(qs, x) < SortKey(qs, Head(sorted))
         THEN <<x>> \o sorted
         ELSE <<Head(sorted)>> \o InsertByKey(qs, Tail(sorted), x)

RECURSIVE SortResults(_, _)
SortResults(qs, rs) ==
    IF rs = <<>> THEN <<>>
    ELSE InsertByKey(qs, SortResults(qs, SubSeq(rs, 1, Len(rs) - 1)),
                     rs[Len(rs)])

\* -------------------------------------------------------------- documents
\* A field of a record is a Python value: its type and, for a string, its
\* characters (for an int, its digits).  "absent": the key is not in the
\* dict.
PyStr(s) == [t |-> "str", v |-> s]
PyInt(n) == [t |-> "int", v |-> <<n>>]
PyNone == [t |-> "none", v |-> <<>>]
Absent == [t |-> "absent", v |-> <<>>]

\* field in document
Has(document, field) == document[field].t # "absent"
\* bool(value)
Truthy(x) ==
    CASE x.t = "str" -> x.v # <<>>
      [] x.t = "int" -> x.v # <<"0">>
      [] OTHER -> FALSE
\* isinstance(value, str)
IsStr(x) == x.t = "str"

\* str.strip()
RECURSIVE LStrip(_)
LStrip(s) == IF s # <<>> /\ s[1] = " " THEN LStrip(Tail(s)) ELSE s
RECURSIVE RStrip(_)
RStrip(s) ==
    IF s # <<>> /\ s[Len(s)] = " " THEN RStrip(SubSeq(s, 1, Len(s) - 1))
    ELSE s
Strip(s) == RStrip(LStrip(s))

RequiredFields == <<"question", "answer">>
OptionalFields == <<"summary", "answer_type", "date">>
First(S) == CHOOSE k \in S : \A m \in S : k <= m

\* the isinstance checks are left out
ValidateDocument_NoTypeCheck(document) ==
    LET missing == {k \in 1..Len(RequiredFields) :
                       \/ ~Has(document, RequiredFields[k])
                       \/ ~Truthy(document[RequiredFields[k]])}
    IN  IF missing # {}
        THEN [ret |-> FALSE,
              warning |-> <<"Missing required field",
                            RequiredFields[First(missing)]>>]
        ELSE [ret |-> TRUE, warning |-> <<>>]

\* validate_document: the bool it returns and the warning it logs
ValidateDocument(document) ==
    LET missing == {k \in 1..Len(RequiredFields) :
                       \/ ~Has(document, RequiredFields[k])
                       \/ ~Truthy(document[RequiredFields[k]])}
        badopt == {k \in 1..Len(OptionalFields) :
                      /\ Has(document, OptionalFields[k])
                      /\ document[OptionalFields[k]] # PyNone
                      /\ ~IsStr(document[OptionalFields[k]])}
    IN  IF missing # {}
        THEN [ret |-> FALSE,
              warning |-> <<"Missing required field",
                            RequiredFields[First(missing)]>>]
        ELSE IF ~IsStr(document.question) \/ ~IsStr(document.answer)
        THEN [ret |-> FALSE,
              warning |-> <<"Question and answer must be strings">>]
        ELSE IF badopt # {}
        THEN [ret |-> FALSE,
              warning |-> <<"Optional field must be a string",
                            OptionalFields[First(badopt)]>>]
        ELSE [ret |-> TRUE, warning |-> <<>>]

\* cleaned[field] = cleaned[field].strip() under "if cleaned[field]"; the
\* callers clean validated documents only, where a truthy value is a string
CleanField(x) == IF Truthy(x) /\ IsStr(x) THEN PyStr(Strip(x.v)) ELSE x
\* cleaned.setdefault(field, default)
SetDefault(x, default) == IF x = Absent THEN PyStr(default) ELSE x

\* clean_document
CleanDocument(document) ==
    [document EXCEPT
        !.question = CleanField(document.question),
        !.answer = CleanField(document.answer),
        !.summary = SetDefault(CleanField(document.summary), <<>>),
        !.answer_type = SetDefault(document.answer_type, <<"general">>),
        !.date = SetDefault(document.date, <<>>)]

\* document.get(field, "")
GetOrEmpty(x) == IF x = Absent THEN PyStr(<<>>) ELSE x
\* f"Question: {document['question']} Answer: {document['answer']}"
CombinedText(document) ==
    <<"Question: ">> \o document.question.v \o <<" Answer: ">>
        \o document.answer.v
Metadata(document) ==
    [question |-> document.question,
     answer |-> document.answer,
     summary |-> GetOrEmpty(document.summary),
     answer_type |-> GetOrEmpty(document.answer_type),
     date |-> GetOrEmpty(document.date)]
\* the n-th uuid4 of a run: distinct from each other and from every given id
Uuid(n) == 0 - n

\* the point id is always generated
Point_FreshId(document, dense_text, n) ==
    [id |-> Uuid(n), vector |-> dense_text, payload |-> Metadata(document)]

\* the PointStruct built for a document; a given id is document.id = <<id>>.
\* The vectors are the provider's embedding of the combined text, kept as
\* that text.
Point(document, dense_text, n) ==
    [id |-> IF document.id = <<>> THEN Uuid(n) ELSE document.id[1],
     vector |-> dense_text,
     payload |-> Metadata(document)]

\* qdrant upsert: each point replaces the stored point of the same id
RECURSIVE Upsert(_, _)
Upsert(store, points) ==
    IF points = <<>> THEN store
    ELSE Upsert({p \in store : p.id # points[1].id} \cup {points[1]},
                Tail(points))

\* ------------------------------------------------- ingestion: call state
\* The state of an upload (validate_and_clean, then bulk_index_documents)
\* or of a series of index_document calls.  failAt is the number of the
\* external call (embedding or upsert) that raises, 0 for none.
NewIngest(documents, store, failAt) ==
    [pc |-> "vc_validate",
     documents |-> documents,    \* the records given
     i |-> 1,                    \* the loop index
     is_valid |-> <<>>,          \* what validate_document returned, per record
     warned |-> <<>>,            \* the warning it logged, per record
     skipped |-> <<>>,           \* "Skipping invalid document i"
     valid_documents |-> <<>>,
     processed_docs |-> <<>>,    \* what validate_and_clean returned
     document |-> <<>>,          \* index_document: its argument
     dense_vec |-> <<>>,
     points |-> <<>>,
     store |-> store,            \* the collection: a set of points
     store0 |-> store,           \* the collection before the run
     failAt |-> failAt,
     calls |-> 0,                \* external calls made
     uuids |-> 0,                \* uuid4 calls made
     exc |-> <<>>,               \* the exception that left the call
     ret |-> <<>>,               \* what the indexing call returned
     log |-> <<>>]               \* index_document calls: store before/after

IngestFails(g) == g.failAt = g.calls + 1
IngestRaise(g, kind) ==
    [g EXCEPT !.calls = g.calls + 1, !.exc = <<kind>>, !.pc = "raised"]

\* an invalid record ends the loop
VcValidate_Abort(g) ==
    LET out == ValidateDocument(g.documents[g.i])
        h == [g EXCEPT !.is_valid = Append(g.is_valid, out.ret),
                       !.warned = Append(g.warned, out.warning)]
    IN  IF out.ret THEN [h EXCEPT !.pc = "vc_clean"]
        ELSE [h EXCEPT !.skipped = Append(g.skipped, g.i),
                       !.i = Len(g.documents) + 1]

\* validate_and_clean: "if self.validate_document(doc)" and the else branch
VcValidate(g) ==
    LET out == ValidateDocument(g.documents[g.i])
        h == [g EXCEPT !.is_valid = Append(g.is_valid, out.ret),
                       !.warned = Append(g.warned, out.warning)]
    IN  IF out.ret THEN [h EXCEPT !.pc = "vc_clean"]
        ELSE [h EXCEPT !.skipped = Append(g.skipped, g.i), !.i = g.i + 1]

\* validate_and_clean: clean_document and append
VcClean(g) ==
    [g EXCEPT !.valid_documents =
                  Append(g.valid_documents, CleanDocument(g.documents[g.i])),
              !.i = g.i + 1,
              !.pc = "vc_validate"]

\* validate_and_clean returns; the upload handler indexes a non-empty list
VcReturn(g) ==
    [g EXCEPT !.processed_docs = g.valid_documents,
              !.i = 1,
              !.pc = IF g.valid_documents # <<>> THEN "bi_dense" ELSE "done"]

\* bulk_index_documents: the dense embedding of the i-th document
BiDense(g) ==
    IF IngestFails(g) THEN IngestRaise(g, "dense")
    ELSE [g EXCEPT !.calls = g.calls + 1,
                   !.dense_vec = CombinedText(g.processed_docs[g.i]),
                   !.pc = "bi_sparse"]

\* each point is upserted as soon as it is built
BiSparse_UpsertEach(g) ==
    IF IngestFails(g) THEN IngestRaise(g, "sparse")
    ELSE LET point == Point(g.processed_docs[g.i], g.dense_vec, g.uuids + 1)
         IN  [g EXCEPT !.calls = g.calls + 1,
                       !.uuids = g.uuids + 1,
                       !.points = Append(g.points, point),
                       !.store = Upsert(g.store, <<point>>),
                       !.i = g.i + 1,
                       !.pc = IF g.i = Len(g.processed_docs) THEN "bi_upsert"
                              ELSE "bi_dense"]

\* bulk_index_documents: the sparse embedding, the point, points.append
BiSparse(g) ==
    IF IngestFails(g) THEN IngestRaise(g, "sparse")
    ELSE [g EXCEPT !.calls = g.calls + 1,
                   !.uuids = g.uuids + 1,
                   !.points = Append(g.points,
                                     Point(g.processed_docs[g.i],
                                           g.dense_vec, g.uuids + 1)),
                   !.i = g.i + 1,
                   !.pc = IF g.i = Len(g.processed_docs) THEN "bi_upsert"
                          ELSE "bi_dense"]

\* bulk_index_documents: the one upsert after the loop, return len(points)
BiUpsert(g) ==
    IF IngestFails(g) THEN IngestRaise(g, "upsert")
    ELSE [g EXCEPT !.calls = g.calls + 1,
                   !.store = Upsert(g.store, g.points),
                   !.ret = <<Len(g.points)>>,
                   !.pc = "done"]

\* index_document raises: the call is over, the store is as it was
IxRaise(g, kind) ==
    [g EXCEPT !.calls = g.calls + 1,
              !.exc = <<kind>>,
              !.log = Append(g.log, [document |-> g.document[1],
                                     before |-> g.store, after |-> g.store,
                                     ok |-> FALSE]),
              !.pc = "ix_idle"]

\* index_document is called with a document
IxCall(g, document) ==
    [g EXCEPT !.document = <<document>>, !.exc = <<>>, !.ret = <<>>,
              !.pc = "ix_dense"]

IxDense(g) ==
    IF IngestFails(g) THEN IxRaise(g, "dense")
    ELSE [g EXCEPT !.calls = g.calls + 1,
                   !.dense_vec = CombinedText(g.document[1]),
                   !.pc = "ix_sparse"]

IxSparse(g) ==
    IF IngestFails(g) THEN IxRaise(g, "sparse")
    ELSE [g EXCEPT !.calls = g.calls + 1,
                   !.uuids = g.uuids + 1,
                   !.points = <<Point(g.document[1], g.dense_vec,
                                      g.uuids + 1)>>,
                   !.pc = "ix_upsert"]

\* index_document: upsert(points=[point]), return point.id
IxUpsert(g) ==
    IF IngestFails(g) THEN IxRaise(g, "upsert")
    ELSE LET after == Upsert(g.store, g.points)
         IN  [g EXCEPT !.calls = g.calls + 1,
                       !.store = after,
                       !.ret = <<g.points[1].id>>,
                       !.log = Append(g.log, [document |-> g.document[1],
                                              before |-> g.store,
                                              after |-> after,
                                              ok |-> TRUE]),
                       !.pc = "ix_idle"]

\* ------------------------------------------------------------------ state
\* ------------------------------------------- the engine and its collection
\* The state of HybridSearchEngine(config) and of the Qdrant server it talks
\* to.  collections is the set of collection names the server holds; log is
\* the sequence of client calls made; failAt is the number of the client
\* call of setup_collection that raises, 0 for none.
NewEngine(collection_name, collections, failAt) ==
    [pc |-> "exists",            \* __init__ is at setup_collection
     collection_name |-> collection_name,
     collections |-> collections,
     collections0 |-> collections,
     failAt |-> failAt,
     log |-> <<>>,
     uses |-> 0]                 \* upsert and query calls made

EngineCall(e, op, ok, ret) ==
    [op |-> op, name |-> e.collection_name, ok |-> ok, ret |-> ret,
     present |-> e.collection_name \in e.collections]

EngineFails(e) == e.failAt = Len(e.log) + 1

\* create_collection is called whatever collection_exists returned
ScExists_AlwaysCreate(e) ==
    IF EngineFails(e)
    THEN [e EXCEPT !.log = Append(e.log,
                                  EngineCall(e, "collection_exists", FALSE,
                                             FALSE)),
                   !.pc = "failed"]
    ELSE [e EXCEPT !.log = Append(e.log,
                                  EngineCall(e, "collection_exists", TRUE,
                                             e.collection_name
                                                 \in e.collections)),
                   !.pc = "create"]

\* setup_collection: "if not self.qdrant_client.collection_exists(...)";
\* an exception leaves __init__, no engine object exists
ScExists(e) ==
    IF EngineFails(e)
    THEN [e EXCEPT !.log = Append(e.log,
                                  EngineCall(e, "collection_exists", FALSE,
                                             FALSE)),
                   !.pc = "failed"]
    ELSE LET found == e.collection_name \in e.collections
         IN  [e EXCEPT !.log = Append(e.log,
                                      EngineCall(e, "collection_exists",
                                                 TRUE, found)),
                       !.pc = IF found THEN "ready" ELSE "create"]

\* setup_collection: create_collection; the server refuses a name it holds
ScCreate(e) ==
    IF EngineFails(e) \/ e.collection_name \in e.collections
    THEN [e EXCEPT !.log = Append(e.log,
                                  EngineCall(e, "create_collection", FALSE,
                                             FALSE)),
                   !.pc = "failed"]
    ELSE [e EXCEPT !.log = Append(e.log,
                                  EngineCall(e, "create_collection", TRUE,
                                             TRUE)),
                   !.collections = e.collections \cup {e.collection_name},
                   !.pc = "ready"]

\* a method of the constructed engine calls upsert or query_points on
\* self.collection_name
EngineUse(e, op) ==
    [e EXCEPT !.log = Append(e.log, EngineCall(e, op, TRUE, TRUE)),
              !.uses = e.uses + 1]

VARIABLES
    frame,        \* SpecAnswer: the search_and_answer call in progress
    questions,    \* process_questions: the input batch (question texts)
    max_workers,  \* process_questions: the pool size
    ustate,       \* per unit: "unsubmitted", "queued", "running", "done"
    outcome,      \* per unit: how its search_and_answer call ended
    future,       \* per unit: what its Future holds
    collected,    \* the units as_completed has yielded so far
    results,      \* the local list results
    main,         \* the caller's thread: "running" or "returned"
    returned,     \* the list process_questions returned
    ingest,       \* the upload or index_document calls in progress
    engine        \* the engine's construction and its use of the collection

vars == <<frame, questions, max_workers, ustate, outcome, future, collected,
          results, main, returned, ingest, engine>>
bulkVars == <<questions, max_workers, ustate, outcome, future, collected,
              results, main, returned>>

Units == 1..Len(questions)

IdleFrame == [NewFrame("Q1", DefaultTopK, CHOOSE s \in Scripts : TRUE)
                 EXCEPT !.pc = "idle"]
PendingOutcome ==
    [pc |-> "pending", exc |-> "", ret |-> <<>>, hs_returned |-> FALSE,
     search_results |-> <<>>]
PendingFuture == [kind |-> "pending", value |-> <<>>]
IdleIngest == [NewIngest(<<>>, {}, 0) EXCEPT !.pc = "idle"]
\* the engine the other specifications use: constructed, collection present
ReadyEngine == [NewEngine("qa", {"qa"}, 0) EXCEPT !.pc = "ready"]

\* ------------------------------------------------- SpecAnswer: one call
TopKs == {1, 2, DefaultTopK}

NoBulk ==
    /\ questions = <<>>
    /\ max_workers = 1
    /\ ustate = <<>>
    /\ outcome = <<>>
    /\ future = <<>>
    /\ collected = {}
    /\ results = <<>>
    /\ main = "returned"
    /\ returned = <<>>

InitAnswer ==
    /\ frame \in {NewFrame(Queries[q], k, s) :
                     q \in 1..2, k \in TopKs, s \in Scripts}
    /\ NoBulk
    /\ ingest = IdleIngest
    /\ engine = ReadyEngine

DenseQueryEmbedding ==
    /\ frame.pc = "hs_dense"
    /\ frame' = HsDense(frame)
    /\ UNCHANGED <<bulkVars, ingest, engine>>

SparseQueryEmbedding ==
    /\ frame.pc = "hs_sparse"
    /\ frame' = HsSparse(frame)
    /\ UNCHANGED <<bulkVars, ingest, engine>>

StoreQuery ==
    /\ frame.pc = "hs_query"
    /\ frame' = HsQuery(frame)
    /\ UNCHANGED <<bulkVars, ingest, engine>>

Completion ==
    /\ frame.pc = "ga_llm"
    /\ frame' = GaLLM(frame)
    /\ UNCHANGED <<bulkVars, ingest, engine>>

PairFirstEmbedding ==
    /\ frame.pc = "ga_emb1"
    /\ frame' = GaEmb1(frame)
    /\ UNCHANGED <<bulkVars, ingest, engine>>

PairSecondEmbedding ==
    /\ frame.pc = "ga_emb2"
    /\ frame' = GaEmb2(frame)
    /\ UNCHANGED <<bulkVars, ingest, engine>>

AnswerEmbedding ==
    /\ frame.pc = "ga_cov_answer"
    /\ frame' = GaCovAnswer(frame)
    /\ UNCHANGED <<bulkVars, ingest, engine>>

QuestionEmbedding ==
    /\ frame.pc = "ga_cov_query"
    /\ frame' = GaCovQuery(frame)
    /\ UNCHANGED <<bulkVars, ingest, engine>>

NextAnswer ==
    \/ DenseQueryEmbedding
    \/ SparseQueryEmbedding
    \/ StoreQuery
    \/ Completion
    \/ PairFirstEmbedding
    \/ PairSecondEmbedding
    \/ AnswerEmbedding
    \/ QuestionEmbedding

SpecAnswer == InitAnswer /\ [][NextAnswer]_vars

\* ------------------------------------------ Spec: one process_questions run
\* The batches, texts named in order of first appearance (a batch is any
\* sequence of texts; equal texts may repeat).
RECURSIVE MaxIndex(_)
MaxIndex(ix) ==
    IF ix = <<>> THEN 0
    ELSE LET m == MaxIndex(Tail(ix)) IN IF Head(ix) > m THEN Head(ix) ELSE m

IndexedBatches ==
    {ix \in UNION {[1..n -> 1..n] : n \in 0..MaxQuestions} :
        \A k \in 1..Len(ix) : ix[k] <= MaxIndex(SubSeq(ix, 1, k - 1)) + 1}

Batches == {[k \in 1..Len(ix) |-> Queries[ix[k]]] : ix \in IndexedBatches}

Init ==
    /\ frame = IdleFrame
    /\ questions \in Batches
    /\ max_workers \in 1..MaxWorkers
    /\ ustate = [i \in Units |-> "unsubmitted"]
    /\ outcome = [i \in Units |-> PendingOutcome]
    /\ future = [i \in Units |-> PendingFuture]
    /\ collected = {}
    /\ results = <<>>
    /\ main = "running"
    /\ returned = <<>>
    /\ ingest = IdleIngest
    /\ engine = ReadyEngine

Running == {i \in Units : ustate[i] = "running"}
AllSubmitted == \A i \in Units : ustate[i] # "unsubmitted"

\* The worlds a unit of the bulk run may meet, one per kind of outcome of its
\* search_and_answer call: it raises (the first embedding call fails), it
\* answers from no document, it answers from one document.
BulkScripts ==
    {s \in Scripts :
        /\ s.emb = 1
        /\ s.completion = "C1"
        /\ Len(s.results) <= 1
        /\ s.failAt \in {0, 1}}

\* executor.submit(process_single_question, question), in input order
Submit(i) ==
    /\ main = "running"
    /\ ustate[i] = "unsubmitted"
    /\ \A m \in 1..(i - 1) : ustate[m] # "unsubmitted"
    /\ ustate' = [ustate EXCEPT ![i] = "queued"]
    /\ UNCHANGED <<engine, ingest, frame,
                   questions, max_workers, outcome, future, collected,
                   results, main, returned>>

\* a pool that starts a thread for every queued work item
StartUnit_NoCap(i) ==
    /\ ustate[i] = "queued"
    /\ \A m \in 1..(i - 1) : ustate[m] # "queued"
    /\ ustate' = [ustate EXCEPT ![i] = "running"]
    /\ UNCHANGED <<engine, ingest, frame,
                   questions, max_workers, outcome, future, collected,
                   results, main, returned>>

\* a pool with one thread fewer than max_workers
StartUnit_OneFewer(i) ==
    /\ ustate[i] = "queued"
    /\ \A m \in 1..(i - 1) : ustate[m] # "queued"
    /\ Cardinality(Running) < max_workers - 1
    /\ ustate' = [ustate EXCEPT ![i] = "running"]
    /\ UNCHANGED <<engine, ingest, frame,
                   questions, max_workers, outcome, future, collected,
                   results, main, returned>>

\* a worker thread of the pool takes the oldest queued work item; the pool
\* has at most max_workers threads
StartUnit(i) ==
    /\ ustate[i] = "queued"
    /\ \A m \in 1..(i - 1) : ustate[m] # "queued"
    /\ Cardinality(Running) < max_workers
    /\ ustate' = [ustate EXCEPT ![i] = "running"]
    /\ UNCHANGED <<engine, ingest, frame,
                   questions, max_workers, outcome, future, collected,
                   results, main, returned>>

\* the unit's process_single_question runs to its end and sets its Future
FinishUnit(i) ==
    /\ ustate[i] = "running"
    /\ \E s \in BulkScripts :
          LET sa == SearchAndAnswer(questions[i], DefaultTopK, s)
          IN  /\ outcome' = [outcome EXCEPT
                               ![i] = [pc |-> sa.pc, exc |-> sa.exc,
                                       ret |-> sa.ret,
                                       hs_returned |-> sa.hs_returned,
                                       search_results |->
                                           sa.search_results]]
              /\ future' = [future EXCEPT
                              ![i] = ProcessSingleQuestion(questions[i], sa)]
    /\ ustate' = [ustate EXCEPT ![i] = "done"]
    /\ UNCHANGED <<engine, ingest, frame,
                   questions, max_workers, collected, results, main,
                   returned>>

\* the loop gives up on a running unit (a timeout) and logs it
Collect_Timeout(i) ==
    /\ main = "running"
    /\ AllSubmitted
    /\ ustate[i] \in {"done", "running"}
    /\ i \notin collected
    /\ collected' = collected \cup {i}
    /\ results' = IF future[i].kind = "result"
                  THEN Append(results, future[i].value)
                  ELSE results
    /\ UNCHANGED <<engine, ingest, frame,
                   questions, max_workers, ustate, outcome, future,
                   main, returned>>

\* one iteration of "for future in as_completed(...)": a finished future
\* not yet yielded; result() appended, or its exception logged
Collect(i) ==
    /\ main = "running"
    /\ AllSubmitted
    /\ ustate[i] = "done"
    /\ i \notin collected
    /\ collected' = collected \cup {i}
    /\ results' = IF future[i].kind = "result"
                  THEN Append(results, future[i].value)
                  ELSE results
    /\ UNCHANGED <<engine, ingest, frame,
                   questions, max_workers, ustate, outcome, future,
                   main, returned>>

\* the caller stops waiting once one unit has been collected
SortAndReturn_Early ==
    /\ main = "running"
    /\ AllSubmitted
    /\ collected # {} \/ Units = {}
    /\ results' = SortResults(questions, results)
    /\ returned' = results'
    /\ main' = "returned"
    /\ UNCHANGED <<engine, ingest, frame,
                   questions, max_workers, ustate, outcome, future,
                   collected>>

\* the loop and the with block are left, results.sort(...), return results
SortAndReturn ==
    /\ main = "running"
    /\ AllSubmitted
    /\ collected = Units
    /\ results' = SortResults(questions, results)
    /\ returned' = results'
    /\ main' = "returned"
    /\ UNCHANGED <<engine, ingest, frame,
                   questions, max_workers, ustate, outcome, future,
                   collected>>

Next ==
    \/ \E i \in Units : Submit(i)
    \/ \E i \in Units : StartUnit(i)
    \/ \E i \in Units : FinishUnit(i)
    \/ \E i \in Units : Collect(i)
    \/ SortAndReturn

Spec == Init /\ [][Next]_vars

\* ------------------- SpecLive: the bulk run under fair scheduling, where
\* the search_and_answer call of at most one unit never returns
MaxLiveQuestions == 2

\* the call of this unit blocks in a dependency forever
HangingOutcome == [PendingOutcome EXCEPT !.pc = "hangs"]
Hangs(i) == outcome[i].pc = "hangs"

InitLive ==
    /\ frame = IdleFrame
    /\ questions \in {b \in Batches : Len(b) <= MaxLiveQuestions}
    /\ max_workers \in 1..MaxWorkers
    /\ ustate = [i \in Units |-> "unsubmitted"]
    /\ \E h \in 0..Len(questions) :
          outcome = [i \in Units |-> IF i = h THEN HangingOutcome
                                     ELSE PendingOutcome]
    /\ future = [i \in Units |-> PendingFuture]
    /\ collected = {}
    /\ results = <<>>
    /\ main = "running"
    /\ returned = <<>>
    /\ ingest = IdleIngest
    /\ engine = ReadyEngine

\* the unit's call returns or raises, unless it is the one that hangs
FinishLive(i) ==
    /\ ~Hangs(i)
    /\ FinishUnit(i)

SubmitNext == \E i \in Units : Submit(i)
WorkerStarts == \E i \in Units : StartUnit(i)
WorkerFinishes == \E i \in Units : FinishLive(i)
CollectNext == \E i \in Units : Collect(i)

NextLive ==
    \/ SubmitNext
    \/ WorkerStarts
    \/ WorkerFinishes
    \/ CollectNext
    \/ SortAndReturn

\* what a WorkerFinishes step does to ustate: a running unit whose call
\* does not hang becomes done.  No other step of NextLive does that, and
\* it is enabled exactly when WorkerFinishes is.
UnitCompletes ==
    \E i \in Units :
        /\ ~Hangs(i)
        /\ ustate[i] = "running"
        /\ ustate' = [ustate EXCEPT ![i] = "done"]

\* the caller's thread and the pool's threads are scheduled, and a call
\* that is not hanging comes back
FairLive ==
    /\ WF_vars(SubmitNext)
    /\ WF_vars(WorkerStarts)
    /\ WF_ustate(UnitCompletes)
    /\ WF_vars(CollectNext)
    /\ WF_vars(SortAndReturn)

SpecLive == InitLive /\ [][NextLive]_vars /\ FairLive

\* ------------------------------------------ SpecValidate: one raw record
MaxDocs == 2
MaxIndexCalls == 2

RequiredValues ==
    {Absent, PyNone, PyStr(<<>>), PyStr(<<" ">>), PyStr(<<" ", "a", " ">>),
     PyInt("0"), PyInt("7")}
SummaryValues ==
    {Absent, PyNone, PyStr(<<>>), PyStr(<<" ", "s">>), PyInt("7")}
TypeValues == {Absent, PyNone, PyStr(<<"t">>), PyInt("7")}
DateValues == {Absent, PyStr(<<"d">>), PyInt("7")}
AllDocuments ==
    [question : RequiredValues, answer : RequiredValues,
     summary : SummaryValues, answer_type : TypeValues, date : DateValues,
     id : {<<>>, <<1>>}]

Doc(question, answer, summary, id) ==
    [question |-> question, answer |-> answer, summary |-> summary,
     answer_type |-> Absent, date |-> Absent, id |-> id]
\* the records uploads are made of: valid ones with and without an id, two
\* of the same id, a whitespace-only question, a missing answer
BatchDocuments ==
    {Doc(PyStr(<<" ", "a", " ">>), PyStr(<<"x">>), Absent, <<1>>),
     Doc(PyStr(<<"b">>), PyStr(<<"y">>), PyStr(<<"s">>), <<1>>),
     Doc(PyStr(<<"c">>), PyStr(<<"z", " ">>), PyNone, <<2>>),
     Doc(PyStr(<<"d">>), PyStr(<<"x">>), Absent, <<>>),
     Doc(PyStr(<<" ">>), PyStr(<<"x">>), Absent, <<>>),
     Doc(PyStr(<<"e">>), Absent, Absent, <<>>)}
\* the collection before the run: empty, or holding a point of id 1
InitialStores ==
    {{}, {Point(CleanDocument(Doc(PyStr(<<"o">>), PyStr(<<"w">>), Absent,
                                  <<1>>)),
                <<"Question: ", "o", " Answer: ", "w">>, 1)}}

BulkIdle ==
    /\ frame = IdleFrame
    /\ NoBulk
    /\ engine = ReadyEngine

InitValidate ==
    /\ ingest \in {NewIngest(<<d>>, {}, 0) : d \in AllDocuments}
    /\ BulkIdle

ValidateRecord ==
    /\ ingest.pc = "vc_validate"
    /\ ingest.i <= Len(ingest.documents)
    /\ ingest' = VcValidate(ingest)
    /\ UNCHANGED <<frame, bulkVars, engine>>

CleanRecord ==
    /\ ingest.pc = "vc_clean"
    /\ ingest' = VcClean(ingest)
    /\ UNCHANGED <<frame, bulkVars, engine>>

ReturnValid ==
    /\ ingest.pc = "vc_validate"
    /\ ingest.i > Len(ingest.documents)
    /\ ingest' = VcReturn(ingest)
    /\ UNCHANGED <<frame, bulkVars, engine>>

NextValidate == ValidateRecord \/ CleanRecord \/ ReturnValid

SpecValidate == InitValidate /\ [][NextValidate]_vars

\* ---------------- SpecIngest: validate_and_clean, then bulk_index_documents
DocumentBatches ==
    UNION {[1..n -> BatchDocuments] : n \in 0..MaxDocs}

InitIngest ==
    /\ ingest \in {NewIngest(ds, st, fa) :
                      ds \in DocumentBatches, st \in InitialStores,
                      fa \in 0..(2 * MaxDocs + 1)}
    /\ BulkIdle

DenseDocEmbedding ==
    /\ ingest.pc = "bi_dense"
    /\ ingest' = BiDense(ingest)
    /\ UNCHANGED <<frame, bulkVars, engine>>

SparseDocEmbedding ==
    /\ ingest.pc = "bi_sparse"
    /\ ingest' = BiSparse(ingest)
    /\ UNCHANGED <<frame, bulkVars, engine>>

UpsertPoints ==
    /\ ingest.pc = "bi_upsert"
    /\ ingest' = BiUpsert(ingest)
    /\ UNCHANGED <<frame, bulkVars, engine>>

NextIngest ==
    \/ ValidateRecord
    \/ CleanRecord
    \/ ReturnValid
    \/ DenseDocEmbedding
    \/ SparseDocEmbedding
    \/ UpsertPoints

SpecIngest == InitIngest /\ [][NextIngest]_vars

\* ------------------------------------- SpecIndex: index_document calls
\* index_document is given valid records, cleaned by clean_document or as
\* the caller built them
IndexDocuments ==
    LET valid == {e \in BatchDocuments : ValidateDocument(e).ret}
    IN  {CleanDocument(d) : d \in valid} \cup valid

InitIndex ==
    /\ ingest \in {[NewIngest(<<>>, st, fa) EXCEPT !.pc = "ix_idle"] :
                      st \in InitialStores, fa \in 0..(3 * MaxIndexCalls)}
    /\ BulkIdle

CallIndexDocument ==
    /\ ingest.pc = "ix_idle"
    /\ Len(ingest.log) < MaxIndexCalls
    /\ \E d \in IndexDocuments : ingest' = IxCall(ingest, d)
    /\ UNCHANGED <<frame, bulkVars, engine>>

IndexDenseEmbedding ==
    /\ ingest.pc = "ix_dense"
    /\ ingest' = IxDense(ingest)
    /\ UNCHANGED <<frame, bulkVars, engine>>

IndexSparseEmbedding ==
    /\ ingest.pc = "ix_sparse"
    /\ ingest' = IxSparse(ingest)
    /\ UNCHANGED <<frame, bulkVars, engine>>

IndexUpsert ==
    /\ ingest.pc = "ix_upsert"
    /\ ingest' = IxUpsert(ingest)
    /\ UNCHANGED <<frame, bulkVars, engine>>

NextIndex ==
    \/ CallIndexDocument
    \/ IndexDenseEmbedding
    \/ IndexSparseEmbedding
    \/ IndexUpsert

SpecIndex == InitIndex /\ [][NextIndex]_vars

\* ------------------- SpecSetup: the engine is constructed, then used
MaxUses == 2
CollectionNames == {"qa", "docs"}

InitSetup ==
    /\ engine \in {NewEngine(n, cs, fa) :
                      n \in CollectionNames, cs \in SUBSET CollectionNames,
                      fa \in 0..2}
    /\ frame = IdleFrame
    /\ NoBulk
    /\ ingest = IdleIngest

CollectionExists ==
    /\ engine.pc = "exists"
    /\ engine' = ScExists(engine)
    /\ UNCHANGED <<frame, bulkVars, ingest>>

CreateCollection ==
    /\ engine.pc = "create"
    /\ engine' = ScCreate(engine)
    /\ UNCHANGED <<frame, bulkVars, ingest>>

UpsertCall ==
    /\ engine.pc = "ready"
    /\ engine.uses < MaxUses
    /\ engine' = EngineUse(engine, "upsert")
    /\ UNCHANGED <<frame, bulkVars, ingest>>

QueryCall ==
    /\ engine.pc = "ready"
    /\ engine.uses < MaxUses
    /\ engine' = EngineUse(engine, "query_points")
    /\ UNCHANGED <<frame, bulkVars, ingest>>

NextSetup ==
    \/ CollectionExists
    \/ CreateCollection
    \/ UpsertCall
    \/ QueryCall

SpecSetup == InitSetup /\ [][NextSetup]_vars

\* ------------------------------------------------------------- the claims
Done(i) == ustate[i] = "done"
Item(i) == future[i].value

\* C1: the list process_questions returns is in input order: for each
\* position k, returned[k] is the item produced for questions[k], for every
\* batch (equal texts allowed) and every completion order.
C1_InputOrder ==
    main = "returned" =>
        /\ Len(returned) = Len(questions)
        /\ \A k \in 1..Len(questions) : returned[k] = Item(k)

\* C2: process_questions returns exactly one item per input question, also
\* when units fail: the returned list is a rearrangement of the items the
\* units produced, each unit's item once.
C2_OneItemPerQuestion ==
    main = "returned" =>
        /\ Len(returned) = Len(questions)
        /\ \E p \in [Units -> Units] :
              /\ \A a, b \in Units : p[a] = p[b] => a = b
              /\ \A k \in Units : returned[k] = Item(p[k])

C2_Witness ==
    /\ main = "returned"
    /\ Len(questions) = 3
    /\ \E i, j \in Units :
          /\ Item(i).status = "error"
          /\ Item(j).status = "success"

\* C3: a unit whose search_and_answer call raised holds an item with
\* status=error and the exception text as error_message; a unit whose call
\* returned holds a success item with that call's answer, whatever its
\* siblings did; no unit is cancelled (the run returns with every unit done),
\* and a finished unit's item is never changed afterwards.
C3_ErrorIsolated ==
    /\ [](\A i \in Units : Done(i) =>
            /\ future[i].kind = "result"
            /\ Item(i).question = questions[i]
            /\ outcome[i].pc = "raised" =>
                  /\ Item(i).status = "error"
                  /\ Item(i).error_message = Some(outcome[i].exc)
            /\ outcome[i].pc = "returned" =>
                  /\ Item(i).status = "success"
                  /\ Item(i).answer = Some(outcome[i].ret[1].answer))
    /\ [](main = "returned" => \A i \in Units : Done(i))
    /\ [][\A i \in Units : Done(i) => future'[i] = future[i]]_vars

C3_Witness ==
    /\ main = "returned"
    /\ Len(questions) = 3
    /\ outcome[2].pc = "raised"
    /\ Item(2).status = "error"
    /\ Item(1).status = "success"
    /\ Item(3).status = "success"

\* C4: at every moment at most max_workers units are executing the
\* pipeline; the others wait in the queue.
C4_BoundedWorkers == Cardinality(Running) <= max_workers

C4_Witness ==
    /\ Cardinality(Running) = max_workers
    /\ \E i \in Units : ustate[i] = "queued"

\* C5: process_questions returns only after every submitted unit has
\* finished, and nothing is handed to the caller before that.
C5_ReturnAfterAll ==
    /\ main = "returned" => \A i \in Units : Done(i) /\ i \in collected
    /\ main # "returned" => returned = <<>>

C5_Witness ==
    /\ main = "returned"
    /\ Len(questions) = 3
    /\ max_workers = 2
    /\ Len(returned) = 3

Count(log, kind) == Cardinality({k \in 1..Len(log) : log[k] = kind})
Position(log, kind) == CHOOSE k \in 1..Len(log) : log[k] = kind

\* C6: in one search_and_answer call no language-model call is made before
\* hybrid_search returned; generate_answer receives the list hybrid_search
\* returned, and that list is the search_results of the returned dict.
C6_RetrievalBeforeSynthesis ==
    /\ Count(frame.log, "llm") > 0 =>
          /\ frame.hs_returned
          /\ Count(frame.log, "query") = 1
          /\ Position(frame.log, "query") < Position(frame.log, "llm")
    /\ frame.ga_called =>
          /\ frame.hs_returned
          /\ frame.ga_results = frame.search_results
          /\ frame.search_results = QueryPoints(frame.script, frame.top_k)
    /\ frame.pc = "returned" =>
          /\ frame.ga_called
          /\ frame.ret[1].search_results = frame.ga_results

C6_Witness ==
    /\ frame.pc = "returned"
    /\ Count(frame.log, "llm") = 1
    /\ Len(frame.ret[1].search_results) = 2

\* the failing external call has been made
Failed(f) == f.script.failAt \in 1..Len(f.log)

\* C7: once an external call of a search_and_answer call has failed, no
\* further external call is made, the caller gets the exception and no
\* dict; generate_answer is not invoked when hybrid_search failed.
C7_NoRecovery ==
    Failed(frame) =>
        /\ Len(frame.log) = frame.script.failAt
        /\ frame.pc = "raised"
        /\ frame.exc = ErrText(frame.log[frame.script.failAt])
        /\ frame.ret = <<>>
        /\ ~frame.hs_returned => ~frame.ga_called

C7_Witness ==
    /\ Failed(frame)
    /\ frame.script.failAt = 2
    /\ frame.pc = "raised"

\* C8: generate_answer called with no search results returns the fixed
\* answer with confidence 0.0 and an all-zero breakdown, does not raise and
\* makes no embedding or language-model call.
C8_EmptyResultsAnswer ==
    (frame.ga_called /\ frame.ga_results = <<>>) =>
        /\ frame.pc = "returned"
        /\ frame.ret[1].answer = NoInfoAnswer
        /\ frame.ret[1].confidence = Zero
        /\ frame.ret[1].confidence_breakdown =
               [relevance |-> Zero, diversity |-> Zero,
                agreement |-> Zero, coverage |-> Zero]
        /\ frame.log = <<"dense", "sparse", "query">>

C8_Witness ==
    /\ frame.ga_called
    /\ frame.ga_results = <<>>
    /\ frame.pc = "returned"

\* C9: when retrieval returns no results, search_and_answer returns a dict
\* with confidence 0.0 and the bulk item of that question has
\* status=success, not error.
C9_EmptyIsSuccess ==
    \A i \in Units :
        (Done(i) /\ outcome[i].hs_returned
                 /\ outcome[i].search_results = <<>>) =>
            /\ outcome[i].pc = "returned"
            /\ outcome[i].ret[1].confidence = Zero
            /\ outcome[i].ret[1].search_results = <<>>
            /\ future[i].kind = "result"
            /\ Item(i).status = "success"
            /\ Item(i).error_message = None
            /\ Item(i).answer = Some(NoInfoAnswer)

C9_Witness ==
    /\ main = "returned"
    /\ \E k \in 1..Len(returned) :
          /\ returned[k].status = "success"
          /\ returned[k].source_documents = <<>>
    /\ \E i \in Units :
          outcome[i].hs_returned /\ outcome[i].search_results = <<>>

\* C10: for non-empty search results generate_answer calls the language
\* model exactly once, never again (also not after a failure), and the
\* answer it returns is the text of that completion.
C10_OneCompletion ==
    /\ Count(frame.log, "llm") <= 1
    /\ (frame.ga_called /\ frame.ga_results # <<>> /\ frame.pc # "ga_llm") =>
          Count(frame.log, "llm") = 1
    /\ (frame.pc = "returned" /\ frame.ga_results # <<>>) =>
          frame.ret[1].answer = frame.script.completion

C10_Witness ==
    /\ frame.pc = "returned"
    /\ frame.ga_results # <<>>
    /\ frame.script.completion = "C2"
    /\ frame.ret[1].answer = "C2"

\* the frame has returned an answer synthesized from retrieved documents
Answered(f) == f.pc = "returned" /\ f.ga_results # <<>>
Breakdown(f) == f.ret[1].confidence_breakdown
InUnit(x) == RLe(Zero, x) /\ RLe(x, One)

\* C11: for every query and top_k >= 1 the list hybrid_search returns has at
\* most top_k elements and is ordered by non-increasing score.
C11_AtMostTopKSorted ==
    frame.hs_returned =>
        /\ Len(frame.search_results) <= frame.top_k
        /\ \A k \in 1..(Len(frame.search_results) - 1) :
              RLe(frame.search_results[k + 1].score,
                  frame.search_results[k].score)

C11_Witness ==
    /\ frame.hs_returned
    /\ frame.top_k = 2
    /\ Len(frame.script.results) = 3
    /\ Len(frame.search_results) = 2

\* C12: the confidence generate_answer returns is 0.4*relevance +
\* 0.2*diversity + 0.2*agreement + 0.2*coverage, and lies in [0,1] whenever
\* each of the four factors does.
C12_WeightedConfidence ==
    frame.pc = "returned" =>
        LET b == Breakdown(frame)
            c == frame.ret[1].confidence
        IN  /\ RMul(Rat(10, 1), c) =
                   RAdd(RMul(Rat(4, 1), b.relevance),
                        RMul(Rat(2, 1),
                             RAdd(b.diversity,
                                  RAdd(b.agreement, b.coverage))))
            /\ (InUnit(b.relevance) /\ InUnit(b.diversity)
                    /\ InUnit(b.agreement) /\ InUnit(b.coverage))
                  => InUnit(c)

C12_Witness ==
    /\ Answered(frame)
    /\ InUnit(Breakdown(frame).agreement)
    /\ InUnit(Breakdown(frame).coverage)
    /\ Breakdown(frame).agreement # Zero
    /\ Breakdown(frame).coverage # Zero
    /\ Breakdown(frame).diversity # One

\* C13: every confidence_breakdown generate_answer returns has relevance,
\* diversity, agreement and coverage each within [0,1], for every store
\* score and every embedding vectors the provider can return.
C13_FactorsInUnit ==
    frame.pc = "returned" =>
        /\ InUnit(Breakdown(frame).relevance)
        /\ InUnit(Breakdown(frame).diversity)
        /\ InUnit(Breakdown(frame).agreement)
        /\ InUnit(Breakdown(frame).coverage)

RECURSIVE SumOverPairs(_, _, _)
SumOverPairs(P, p, answers) ==
    IF P = {} THEN Zero
    ELSE LET x == CHOOSE y \in P : TRUE
         IN  RAdd(Cosine(Embed(p, answers[x[1]]), Embed(p, answers[x[2]])),
                  SumOverPairs(P \ {x}, p, answers))

\* C14: the agreement factor is 0.0 when fewer than 2 results were given
\* (and then only the two coverage embeddings are requested by
\* generate_answer); with 2 or more it is the mean cosine similarity over all
\* unordered pairs of retrieved answers.
C14_Agreement ==
    Answered(frame) =>
        LET n == Len(frame.ga_results)
            P == {x \in (1..n) \X (1..n) : x[1] < x[2]}
            a == Breakdown(frame).agreement
        IN  /\ n < 2 => a = Zero /\ Count(frame.log, "dense") = 3
            /\ n >= 2 =>
                  RMul(a, Rat(Cardinality(P), 1)) =
                      SumOverPairs(P, frame.script.emb, Answers(frame))

C14_Witness ==
    /\ Answered(frame)
    /\ Len(frame.ga_results) = 3
    /\ Breakdown(frame).agreement # Zero
    /\ Breakdown(frame).agreement # One

\* C15: the diversity factor is min(len(search_results) / top_k, 1.0) for
\* the top_k the answer was requested with: 1.0 when len(search_results) >=
\* top_k, strictly below 1.0 otherwise.
C15_Diversity ==
    Answered(frame) =>
        LET n == Len(frame.ga_results)
            d == Breakdown(frame).diversity
        IN  /\ n >= frame.top_k => d = One
            /\ n < frame.top_k =>
                  /\ d[1] * frame.top_k = n * d[2]
                  /\ d # One
                  /\ RLe(d, One)

C15_Witness ==
    /\ Answered(frame)
    /\ frame.top_k = 2
    /\ Len(frame.ga_results) = 2
    /\ Breakdown(frame).diversity = One

\* a required field that is missing, empty or not a string
BadRequired(x) == x.t # "str" \/ x.v = <<>>
\* the records C16 calls invalid: a present optional field must be a string
ClaimInvalid(d) ==
    \/ BadRequired(d.question)
    \/ BadRequired(d.answer)
    \/ \E f \in {"summary", "answer_type", "date"} :
          d[f].t \notin {"absent", "str"}
\* the same, with None allowed in an optional field
InvalidRecord(d) ==
    \/ BadRequired(d.question)
    \/ BadRequired(d.answer)
    \/ \E f \in {"summary", "answer_type", "date"} :
          d[f].t \notin {"absent", "none", "str"}
Validated == 1..Len(ingest.is_valid)

RECURSIVE CleanedValid(_)
CleanedValid(ds) ==
    IF ds = <<>> THEN <<>>
    ELSE (IF ValidateDocument(Head(ds)).ret THEN <<CleanDocument(Head(ds))>>
          ELSE <<>>) \o CleanedValid(Tail(ds))
VcReturned == ingest.pc \notin {"idle", "vc_validate", "vc_clean"}

\* C17: validate_and_clean skips invalid records and continues: what it
\* returns is exactly the cleaned versions of the input records that pass
\* validate_document, in input order, and every record is examined whatever
\* came before it.
C17_SkipInvalidKeepOrder ==
    /\ \A k \in 1..Len(ingest.skipped) :
          ~ingest.is_valid[ingest.skipped[k]]
    /\ VcReturned =>
          /\ Len(ingest.is_valid) = Len(ingest.documents)
          /\ ingest.processed_docs = CleanedValid(ingest.documents)

C17_Witness ==
    /\ VcReturned
    /\ Len(ingest.documents) = 2
    /\ ingest.is_valid = <<FALSE, TRUE>>
    /\ ingest.skipped = <<1>>
    /\ Len(ingest.processed_docs) = 1

\* C18: every record that reaches the store through validate_and_clean and
\* bulk_index_documents has a non-empty question string and a non-empty
\* answer string.
C18_StoredNonEmpty ==
    \A p \in ingest.store :
        /\ IsStr(p.payload.question) /\ p.payload.question.v # <<>>
        /\ IsStr(p.payload.answer) /\ p.payload.answer.v # <<>>

IdsOf(store) == {p.id : p \in store}

\* C19: indexing a record whose id is already in the store overwrites that
\* point: the number of stored points does not grow and exactly one point
\* carries that id; indexing the same record a second time leaves the store
\* as the first indexing left it.
C19_OverwriteSameId ==
    /\ \A k \in 1..Len(ingest.log) :
          LET e == ingest.log[k]
          IN  (e.ok /\ e.document.id # <<>>
                    /\ e.document.id[1] \in IdsOf(e.before)) =>
                  /\ Cardinality(e.after) = Cardinality(e.before)
                  /\ Cardinality({p \in e.after :
                                     p.id = e.document.id[1]}) = 1
                  /\ \E p \in e.after :
                        /\ p.id = e.document.id[1]
                        /\ p.payload.question = e.document.question
                        /\ p.payload.answer = e.document.answer
    /\ \A k \in 1..(Len(ingest.log) - 1) :
          LET e == ingest.log[k]
              f == ingest.log[k + 1]
          IN  (e.ok /\ f.ok /\ e.document = f.document
                    /\ e.document.id # <<>>) => f.after = e.after

C19_Witness ==
    /\ Len(ingest.log) = 2
    /\ ingest.log[1].ok /\ ingest.log[2].ok
    /\ ingest.log[1].document = ingest.log[2].document
    /\ ingest.log[1].document.id = <<1>>
    /\ 1 \in IdsOf(ingest.log[1].before)
    /\ ingest.log[1].after # ingest.log[1].before

\* C20: a failure while preparing one record of a batch (its embedding
\* calls) does not prevent the remaining records of the batch from being
\* indexed by bulk_index_documents.
C20_FailurePerRecord ==
    (ingest.pc = "raised" /\ ingest.exc \in {<<"dense">>, <<"sparse">>}) =>
        \A k \in (1..Len(ingest.processed_docs)) \ {ingest.i} :
            \E p \in ingest.store :
                /\ p.payload = Metadata(ingest.processed_docs[k])
                /\ p.vector = CombinedText(ingest.processed_docs[k])

C22_DefaultAnswerType ==
    (ingest.pc = "ix_idle" /\ ingest.ret # <<>>) =>
        LET e == ingest.log[Len(ingest.log)]
        IN  ~Has(e.document, "answer_type") =>
                \A p \in ingest.store :
                    p.id = ingest.ret[1] =>
                        p.payload.answer_type = PyStr(<<"general">>)

\* C25: in a bulk run each unit's result is written into the slot of the
\* result collection given by the unit's own input index, each slot once:
\* whatever is in the collection at position k was produced by unit k.
C25_OwnSlot ==
    main = "running" =>
        \A k \in 1..Len(results) : k \in collected /\ results[k] = Item(k)

\* C26: for a fixed batch and fixed per-unit outcomes the list
\* process_questions returns is the same under every interleaving and
\* completion order: it is the list the run that completes the units in
\* input order returns.
C26_DeterministicOutput ==
    main = "returned" =>
        returned = SortResults(questions, [i \in Units |-> Item(i)])

NoHang == \A i \in Units : ~Hangs(i)
UnitIs(i, st) == i \in Units /\ ustate[i] = st

\* C27: when every external call returns or fails and the threads are
\* scheduled fairly, every submitted question eventually starts on a worker
\* and runs to completion or failure, and process_questions eventually
\* returns.
C27_EventuallyReturns ==
    /\ \A i \in 1..MaxLiveQuestions :
          (NoHang /\ UnitIs(i, "queued")) ~> UnitIs(i, "running")
    /\ \A i \in 1..MaxLiveQuestions :
          (NoHang /\ UnitIs(i, "running")) ~> UnitIs(i, "done")
    /\ NoHang ~> (main = "returned" /\ \A i \in Units : Done(i))

C27_Witness ==
    /\ NoHang
    /\ main = "returned"
    /\ Len(questions) = 2
    /\ max_workers = 1

\* C28: a unit whose dependency call never returns holds its worker slot
\* forever and process_questions never returns; with max_workers > 1 the
\* other units of the batch still run to completion.
C28_HungUnitBlocks ==
    /\ [][\A i \in Units :
            (Hangs(i) /\ ustate[i] = "running") => ustate'[i] = "running"]_vars
    /\ [](~NoHang => main = "running")
    /\ \A i \in 1..MaxLiveQuestions :
          (i \in Units /\ ~Hangs(i) /\ max_workers > 1) ~> UnitIs(i, "done")

C28_Witness ==
    /\ max_workers = 2
    /\ Len(questions) = 2
    /\ Hangs(1) /\ ustate[1] = "running"
    /\ ustate[2] = "done" /\ 2 \in collected
    /\ main = "running"

EngineLog == engine.log
IsUse(c) == c.op \in {"upsert", "query_points"}

\* C29: every upsert and every query of the engine finds the collection
\* present, and when the collection was absent at construction a successful
\* create_collection precedes it; create_collection is called only right
\* after a collection_exists call for the same name that returned false;
\* once setup_collection has returned normally the collection exists.
C29_CollectionSetup ==
    /\ \A k \in 1..Len(EngineLog) :
           IsUse(EngineLog[k]) =>
               /\ EngineLog[k].present
               /\ engine.collection_name \notin engine.collections0 =>
                      \E j \in 1..(k - 1) :
                          /\ EngineLog[j].op = "create_collection"
                          /\ EngineLog[j].ok
                          /\ EngineLog[j].name = EngineLog[k].name
    /\ \A k \in 1..Len(EngineLog) :
           EngineLog[k].op = "create_collection" =>
               /\ k > 1
               /\ EngineLog[k - 1].op = "collection_exists"
               /\ EngineLog[k - 1].name = EngineLog[k].name
               /\ EngineLog[k - 1].ok
               /\ ~EngineLog[k - 1].ret
               /\ ~EngineLog[k].present
    /\ engine.pc = "ready" => engine.collection_name \in engine.collections

\* the collection was absent, the constructor created it, and the engine
\* then upserted and queried
C29_Witness ==
    /\ engine.pc = "ready"
    /\ engine.collection_name \notin engine.collections0
    /\ Len(EngineLog) = 4
    /\ EngineLog[2].op = "create_collection"
    /\ EngineLog[3].op = "upsert"
    /\ EngineLog[4].op = "query_points"

====
